---- MODULE Spec2Model ----
(***************************************************************************)
(* Model of assets/generate_icon_sprite.py: the SVG icon sprite generator. *)
(*                                                                         *)
(* Text (attribute values, file names) is a sequence of one-character      *)
(* strings.  A Python number is a record [neg, num, den, isint]: the sign  *)
(* (kept apart so that -0.0 exists), the magnitude num/den in lowest       *)
(* terms, and whether the value is an int or a float.  The inputs are      *)
(* chosen so that every float the code computes is a dyadic rational, so   *)
(* binary floating point computes it exactly.                              *)
(***************************************************************************)
EXTENDS Integers, Sequences, FiniteSets, TLC

(***************************************************************************)
(* Bounds of the model.                                                    *)
(***************************************************************************)
MaxFiles == 2
MaxRuns == 2

(***************************************************************************)
(* Text helpers (Python str methods used by the code).                     *)
(***************************************************************************)
IsSpace(c) == c \in {" ", "\t", "\n"}

DigitChars == <<"0", "1", "2", "3", "4", "5", "6", "7", "8", "9">>

IsDigit(c) == \E i \in 1..10 : DigitChars[i] = c

DigitVal(c) == (CHOOSE i \in 1..10 : DigitChars[i] = c) - 1

RECURSIVE LStrip(_)
LStrip(s) == IF s # <<>> /\ IsSpace(Head(s)) THEN LStrip(Tail(s)) ELSE s

RECURSIVE RStrip(_)
RStrip(s) ==
    IF s # <<>> /\ IsSpace(s[Len(s)]) THEN RStrip(SubSeq(s, 1, Len(s) - 1)) ELSE s

\* str.strip()
Strip(s) == RStrip(LStrip(s))

\* str.split(): the maximal runs of non-whitespace characters, in order
RECURSIVE SplitFrom(_, _, _)
SplitFrom(s, cur, acc) ==
    IF s = <<>>
    THEN IF cur = <<>> THEN acc ELSE Append(acc, cur)
    ELSE IF IsSpace(Head(s))
         THEN SplitFrom(Tail(s), <<>>, IF cur = <<>> THEN acc ELSE Append(acc, cur))
         ELSE SplitFrom(Tail(s), Append(cur, Head(s)), acc)

Split(s) == SplitFrom(s, <<>>, <<>>)

\* ' '.join(parts)
RECURSIVE Join(_)
Join(parts) ==
    IF parts = <<>> THEN <<>>
    ELSE IF Len(parts) = 1 THEN parts[1]
    ELSE parts[1] \o <<" ">> \o Join(Tail(parts))

(***************************************************************************)
(* Python numbers.                                                         *)
(***************************************************************************)
RECURSIVE Gcd(_, _)
Gcd(a, b) == IF b = 0 THEN a ELSE Gcd(b, a % b)

Num(neg, n, d, isint) ==
    LET g == Gcd(n, d)
    IN  [neg |-> neg, num |-> n \div g, den |-> d \div g, isint |-> isint]

PyInt(n) == Num(n < 0, IF n < 0 THEN -n ELSE n, 1, TRUE)

PyFloat(n) == Num(n < 0, IF n < 0 THEN -n ELSE n, 1, FALSE)

\* a == b on numbers: by value; -0.0 == 0 and 24.0 == 24
NumEq(a, b) ==
    /\ a.num * b.den = b.num * a.den
    /\ (a.num = 0 \/ a.neg = b.neg)

\* a >= b on numbers
NumGe(a, b) ==
    LET sa == IF a.neg THEN -(a.num * b.den) ELSE a.num * b.den
        sb == IF b.neg THEN -(b.num * a.den) ELSE b.num * a.den
    IN  sa >= sb

\* -a on a float (the sign of zero flips too)
NumNeg(a) == [a EXCEPT !.neg = ~a.neg]

\* a * b, a float result
NumMul(a, b) == Num(a.neg # b.neg, a.num * b.num, a.den * b.den, FALSE)

\* a / b for b # 0, a float result
NumDiv(a, b) == Num(a.neg # b.neg, a.num * b.den, a.den * b.num, FALSE)

\* int(a): truncation towards zero
NumTrunc(a) == Num(a.neg /\ a.num \div a.den # 0, a.num \div a.den, 1, TRUE)

RECURSIVE NatStr(_)
NatStr(n) == IF n < 10 THEN <<DigitChars[n + 1]>> ELSE Append(NatStr(n \div 10), DigitChars[(n % 10) + 1])

\* the decimal digits of r/den after the point, for a terminating expansion
RECURSIVE FracStr(_, _)
FracStr(r, den) ==
    IF r = 0 THEN <<>>
    ELSE <<DigitChars[((r * 10) \div den) + 1]>> \o FracStr((r * 10) % den, den)

\* str(a) as an f-string renders it: repr of an int, or of a float
NumStr(a) ==
    LET sign == IF a.neg THEN <<"-">> ELSE <<>>
        ip   == NatStr(a.num \div a.den)
        fr   == FracStr(a.num % a.den, a.den)
    IN  IF a.isint THEN sign \o ip
        ELSE sign \o ip \o <<".">> \o (IF fr = <<>> THEN <<"0">> ELSE fr)

RECURSIVE DigitsVal(_, _)
DigitsVal(s, acc) == IF s = <<>> THEN acc ELSE DigitsVal(Tail(s), acc * 10 + DigitVal(Head(s)))

RECURSIVE Pow10(_)
Pow10(k) == IF k = 0 THEN 1 ELSE 10 * Pow10(k - 1)

AllDigits(s) == \A i \in 1..Len(s) : IsDigit(s[i])

DotAt(s) == IF \E i \in 1..Len(s) : s[i] = "." THEN CHOOSE i \in 1..Len(s) : s[i] = "." ELSE 0

\* float(x) for a text x: [ok, val]; ok = FALSE is ValueError.  Accepted
\* texts: optional surrounding whitespace, optional sign, decimal digits with
\* an optional point (the inputs of the model use no exponent, inf or nan).
ParseFloat(x) ==
    LET t    == Strip(x)
        neg  == t # <<>> /\ Head(t) = "-"
        body == IF t # <<>> /\ Head(t) \in {"-", "+"} THEN Tail(t) ELSE t
        dot  == DotAt(body)
        ip   == IF dot = 0 THEN body ELSE SubSeq(body, 1, dot - 1)
        fp   == IF dot = 0 THEN <<>> ELSE SubSeq(body, dot + 1, Len(body))
    IN  IF AllDigits(ip) /\ AllDigits(fp) /\ Len(ip) + Len(fp) > 0
        THEN [ok |-> TRUE,
              val |-> Num(neg, DigitsVal(ip \o fp, 0), Pow10(Len(fp)), FALSE)]
        ELSE [ok |-> FALSE, val |-> PyFloat(0)]

(***************************************************************************)
(* XML elements (xml.etree.ElementTree.Element).  An element is            *)
(* [tag, ns, attrs, kids, tail]: the local tag name, whether the tag is in *)
(* the SVG namespace ('{http://www.w3.org/2000/svg}path'), the attributes  *)
(* as <<name, value>> pairs in insertion order, the children in document   *)
(* order, and the whitespace text that follows the element.                *)
(***************************************************************************)
HasAttr(element, name) == \E i \in 1..Len(element.attrs) : element.attrs[i][1] = name

\* element.get(name, default)
GetAttr(element, name, default) ==
    IF HasAttr(element, name)
    THEN element.attrs[CHOOSE i \in 1..Len(element.attrs) : element.attrs[i][1] = name][2]
    ELSE default

\* element.set(name, value): a dict assignment, which keeps the position of a
\* key that is present and appends one that is new
SetAttr(element, name, value) ==
    IF HasAttr(element, name)
    THEN [element EXCEPT !.attrs =
            [i \in 1..Len(element.attrs) |->
                IF element.attrs[i][1] = name THEN <<name, value>> ELSE element.attrs[i]]]
    ELSE [element EXCEPT !.attrs = Append(element.attrs, <<name, value>>)]

\* float(element.get(name, 0))
FloatAttr(element, name) ==
    IF HasAttr(element, name) THEN ParseFloat(GetAttr(element, name, <<>>))
    ELSE [ok |-> TRUE, val |-> PyFloat(0)]

\* element.tag.split('}')[-1] if '}' in element.tag else element.tag
LocalTag(element) == element.tag

DefaultViewBoxText == <<"0", " ", "0", " ", "2", "4", " ", "2", "4">>

CurrentColor == <<"c", "u", "r", "r", "e", "n", "t", "C", "o", "l", "o", "r">>

NoneText == <<"n", "o", "n", "e">>

\* the side of the canonical frame
CanonSize == 24

\* return (0, 0, 24, 24): the fallback, a tuple of ints
DefaultViewBox == <<PyInt(0), PyInt(0), PyInt(CanonSize), PyInt(CanonSize)>>

\* [float(v) for v in tokens]
FloatsOf(toks) == [i \in 1..Len(toks) |-> ParseFloat(toks[i])]

\* the tuple of the values, or the fallback
ViewBoxFrom(vals) ==
    IF (\A i \in 1..Len(vals) : vals[i].ok) /\ Len(vals) = 4
    THEN [i \in 1..4 |-> vals[i].val]
    ELSE DefaultViewBox

\* parse_viewbox: four floats, or the int fallback when a token is no number
\* or there are not four of them
parse_viewbox(viewbox_str) ==
    ViewBoxFrom(FloatsOf(Split(viewbox_str)))

\* background_patterns: the f-strings of the viewBox, then the literals
PatternsOf(vx, vy, vw, vh, iw, ih) ==
        << <<"M">> \o vx \o <<" ">> \o vy \o <<"h">> \o vw \o <<"v">> \o vh \o <<"H">> \o vx \o <<"z">>,
           <<"M">> \o vx \o <<" ">> \o vy \o <<"h">> \o vw \o <<"v">> \o vh \o <<"H">> \o vx \o <<"V">> \o vy \o <<"z">>,
           <<"M">> \o vx \o <<",">> \o vy \o <<"h">> \o vw \o <<"v">> \o vh \o <<"H">> \o vx \o <<"V">> \o vy \o <<"z">>,
           <<"M">> \o vx \o <<" ">> \o vy \o <<"h">> \o iw \o <<"v">> \o ih \o <<"H">> \o vx \o <<"z">>,
           <<"M">> \o vx \o <<" ">> \o vy \o <<"h">> \o iw \o <<"v">> \o ih \o <<"H">> \o vx \o <<"V">> \o vy \o <<"z">>,
           <<"M", "0", " ", "0", "h", "2", "4", "v", "2", "4", "H", "0", "z">>,
           <<"M", "0", " ", "0", "h", "2", "4", "v", "2", "4", "H", "0", "V", "0", "z">>,
           <<"M", "0", ",", "0", "h", "2", "4", "v", "2", "4", "H", "0", "V", "0", "z">>,
           <<"M", ".", "0", "1", " ", "0", "h", "2", "4", "v", "2", "4", "h", "-", "2", "4", "V", "0", "z">> >>

\* the texts of vx, vy, vw, vh, int(vw), int(vh) as the f-strings render them
ViewBoxTexts(viewbox) ==
    [i \in 1..6 |-> NumStr(IF i <= 4 THEN viewbox[i] ELSE NumTrunc(viewbox[i - 2]))]

PatternsFrom(t) == PatternsOf(t[1], t[2], t[3], t[4], t[5], t[6])

background_patterns(viewbox) == PatternsFrom(ViewBoxTexts(viewbox))

\* any(d_attr.strip() == pattern for pattern in background_patterns)
MatchesPattern(d_attr, pats) == \E i \in 1..Len(pats) : d_attr = pats[i]

\* the rect test, on the four floats r = <<x, y, width, height>>, each [ok, val]
RectIsBackground(r, viewbox) ==
    IF \E i \in 1..4 : ~r[i].ok
    THEN [ok |-> FALSE, bg |-> FALSE]
    ELSE [ok |-> TRUE,
          bg |-> /\ NumEq(r[1].val, viewbox[1])
                 /\ NumEq(r[2].val, viewbox[2])
                 /\ NumGe(r[3].val, viewbox[3])
                 /\ NumGe(r[4].val, viewbox[4])]

RectAttrNames == <<"x", "y", "width", "height">>

\* is_background_element: [ok, bg]; ok = FALSE is the ValueError float() raises
\* on a rect attribute that is no number
is_background_element(element, viewbox) ==
    IF HasAttr(element, "fill") /\ GetAttr(element, "fill", <<>>) = NoneText
    THEN [ok |-> TRUE, bg |-> TRUE]
    ELSE IF LocalTag(element) = "path"
            /\ MatchesPattern(Strip(GetAttr(element, "d", <<>>)), background_patterns(viewbox))
    THEN [ok |-> TRUE, bg |-> TRUE]
    ELSE IF LocalTag(element) = "rect"
    THEN RectIsBackground([i \in 1..4 |-> FloatAttr(element, RectAttrNames[i])], viewbox)
    ELSE [ok |-> TRUE, bg |-> FALSE]

IsDefaultViewBox(viewbox) ==
    /\ NumEq(viewbox[1], PyInt(0))
    /\ NumEq(viewbox[2], PyInt(0))
    /\ NumEq(viewbox[3], PyInt(CanonSize))
    /\ NumEq(viewbox[4], PyInt(CanonSize))

TranslateText(tx, ty) ==
    <<"t", "r", "a", "n", "s", "l", "a", "t", "e", "(">> \o NumStr(tx) \o <<",">> \o NumStr(ty) \o <<")">>

ScaleText(sx, sy) ==
    <<"s", "c", "a", "l", "e", "(">> \o NumStr(sx) \o <<",">> \o NumStr(sy) \o <<")">>

\* the transforms list, from the scales and translations
TransformsOf(scale_x, scale_y, translate_x, translate_y) ==
        (IF ~NumEq(translate_x, PyInt(0)) \/ ~NumEq(translate_y, PyInt(0))
         THEN <<TranslateText(translate_x, translate_y)>> ELSE <<>>)
        \o
        (IF ~NumEq(scale_x, PyInt(1)) \/ ~NumEq(scale_y, PyInt(1))
         THEN <<ScaleText(scale_x, scale_y)>> ELSE <<>>)

ScalesOf(viewbox) == [i \in 1..2 |-> NumDiv(PyInt(CanonSize), viewbox[i + 2])]

TransformsFrom(viewbox, scale) ==
    TransformsOf(scale[1], scale[2],
                 NumMul(NumNeg(viewbox[1]), scale[1]), NumMul(NumNeg(viewbox[2]), scale[2]))

\* the transforms list built from the viewBox (vw, vh nonzero)
NormalizationTransforms(viewbox) == TransformsFrom(viewbox, ScalesOf(viewbox))

\* the two transforms combined with the new one first
CombineNewFirst(existing_transform, new_transform) ==
    IF existing_transform # <<>>
    THEN new_transform \o <<" ">> \o existing_transform
    ELSE new_transform

\* existing transform and new transform, combined into the attribute value
CombineTransform(existing_transform, new_transform) ==
    IF existing_transform # <<>>
    THEN existing_transform \o <<" ">> \o new_transform
    ELSE new_transform

\* a transform attribute that is set whatever the transforms list holds
WithTransformsAlways(element, transforms) ==
    SetAttr(element, "transform",
            CombineTransform(GetAttr(element, "transform", <<>>), Join(transforms)))

\* if transforms: the transform attribute is set
WithTransforms(element, transforms) ==
    IF transforms # <<>>
    THEN SetAttr(element, "transform",
                 CombineTransform(GetAttr(element, "transform", <<>>), Join(transforms)))
    ELSE element

\* a normalizer without the early return for the 24x24 frame and without the
\* test of the transforms list
normalize_always_transform(element, source_viewbox) ==
    IF source_viewbox[3].num = 0 \/ source_viewbox[4].num = 0
    THEN [ok |-> FALSE, el |-> element]
    ELSE [ok |-> TRUE,
          el |-> SetAttr(WithTransformsAlways(element, NormalizationTransforms(source_viewbox)),
                         "fill", CurrentColor)]

\* normalize_element_to_24x24: [ok, el]; ok = FALSE is ZeroDivisionError
normalize_element_to_24x24(element, source_viewbox) ==
    IF IsDefaultViewBox(source_viewbox)
    THEN [ok |-> TRUE, el |-> SetAttr(element, "fill", CurrentColor)]
    ELSE IF source_viewbox[3].num = 0 \/ source_viewbox[4].num = 0
    THEN [ok |-> FALSE, el |-> element]
    ELSE [ok |-> TRUE,
          el |-> SetAttr(WithTransforms(element, NormalizationTransforms(source_viewbox)),
                         "fill", CurrentColor)]

drawable_tags == {"path", "rect", "circle", "ellipse", "line", "polyline", "polygon"}

\* collect_elements over the children `kids` of one parent, continuing from
\* acc = [ok, elems]; an exception (ok = FALSE) ends the walk
\* a visit that keeps the elements classified as background
VisitDrawableKeepsBackground(acc, bg, normalized) ==
    IF ~bg.ok THEN [acc EXCEPT !.ok = FALSE]
    ELSE IF ~normalized.ok THEN [acc EXCEPT !.ok = FALSE]
    ELSE [acc EXCEPT !.elems = Append(acc.elems, normalized.el)]

\* the visit of one drawable element: bg and normalized are the results of
\* the classifier and of the normalizer on it
VisitDrawable(acc, bg, normalized) ==
    IF ~bg.ok THEN [acc EXCEPT !.ok = FALSE]
    ELSE IF bg.bg THEN acc
    ELSE IF ~normalized.ok THEN [acc EXCEPT !.ok = FALSE]
    ELSE [acc EXCEPT !.elems = Append(acc.elems, normalized.el)]

RECURSIVE collect_elements(_, _, _)
collect_elements(kids, viewbox, acc) ==
    IF kids = <<>> \/ ~acc.ok THEN acc
    ELSE collect_elements(Tail(kids), viewbox,
            IF LocalTag(Head(kids)) \in drawable_tags
            THEN VisitDrawable(acc, is_background_element(Head(kids), viewbox),
                               normalize_element_to_24x24(Head(kids), viewbox))
            ELSE collect_elements(Head(kids).kids, viewbox, acc))

\* the viewBox extract_icon_elements works with
ViewBoxOf(root) == parse_viewbox(GetAttr(root, "viewBox", DefaultViewBoxText))

\* except clauses that return what was collected so far
OnExtractErrorPartial(collected) == collected

\* what the except clauses of extract_icon_elements return
OnExtractError(collected) == <<>>

\* return drawable_elements, unless an exception ended the walk
ExtractResult(got) == IF got.ok THEN got.elems ELSE OnExtractError(got.elems)

\* extract_icon_elements: content is [kind, root]; kind "malformed" is a text
\* ET.fromstring rejects (ParseError)
extract_icon_elements(svg_content) ==
    IF svg_content.kind = "malformed" THEN OnExtractError(<<>>)
    ELSE ExtractResult(collect_elements(svg_content.root.kids, ViewBoxOf(svg_content.root),
                                        [ok |-> TRUE, elems |-> <<>>]))

(***************************************************************************)
(* Serialization and the text of the sprite.  One entry of sprite_content  *)
(* is [indent, kind, name, viewBox, el]: the leading spaces, the kind of   *)
(* markup ("svg_open", "symbol_open", "element", "symbol_close",           *)
(* "svg_close", or "blank" for a line of whitespace only), the id and the  *)
(* viewBox of a symbol, and the serialized element.                        *)
(***************************************************************************)
NoElement == [prefix |-> "", tag |-> "", attrs |-> <<>>, kids |-> <<>>, tail |-> <<>>]

\* ET.tostring(element, encoding='unicode'): a tag in a namespace is written
\* with the generated prefix ns0; the attributes keep their order; the
\* children and the tail text are part of the text
RECURSIVE tostring(_)
tostring(element) ==
    [prefix |-> IF element.ns THEN "ns0" ELSE "",
     tag    |-> element.tag,
     attrs  |-> element.attrs,
     kids   |-> [i \in 1..Len(element.kids) |-> tostring(element.kids[i])],
     tail   |-> element.tail]

SvgOpenLine == [indent |-> 0, kind |-> "svg_open", name |-> <<>>, viewBox |-> <<>>, el |-> NoElement]

SvgCloseLine == [indent |-> 0, kind |-> "svg_close", name |-> <<>>, viewBox |-> <<>>, el |-> NoElement]

\* f'  <symbol id="{icon_name}" viewBox="0 0 24 24">'
SymbolOpenLine(icon_name) ==
    [indent |-> 2, kind |-> "symbol_open", name |-> icon_name, viewBox |-> DefaultViewBoxText,
     el |-> NoElement]

SymbolCloseLine == [indent |-> 2, kind |-> "symbol_close", name |-> <<>>, viewBox |-> <<>>, el |-> NoElement]

\* f'    {element_str}'
ElementLine(element) ==
    [indent |-> 4, kind |-> "element", name |-> <<>>, viewBox |-> <<>>, el |-> tostring(element)]

RECURSIVE ElementLines(_)
ElementLines(elements) ==
    IF elements = <<>> THEN <<>>
    ELSE <<ElementLine(Head(elements))>> \o ElementLines(Tail(elements))

\* the lines of the symbol block of one icon
SymbolBlock(icon_name, elements) ==
    <<SymbolOpenLine(icon_name)>> \o ElementLines(elements) \o <<SymbolCloseLine>>

NewlineCount(s) == Cardinality({i \in 1..Len(s) : s[i] = "\n"})

\* '\n'.join(sprite_content).split('\n'): an entry whose element text ends in
\* a tail with line breaks spreads over that many further lines, of
\* whitespace only
BlankLine == [indent |-> 0, kind |-> "blank", name |-> <<>>, viewBox |-> <<>>, el |-> NoElement]

RECURSIVE SplitLines(_)
SplitLines(entries) ==
    IF entries = <<>> THEN <<>>
    ELSE <<Head(entries)>>
         \o [i \in 1..NewlineCount(Head(entries).el.tail) |-> BlankLine]
         \o SplitLines(Tail(entries))

\* stripped.startswith('<symbol'), '<path', '</symbol>'
IndentOf(line) ==
    IF line.kind = "symbol_open" THEN 2
    ELSE IF line.kind = "element" /\ line.el.prefix = "" /\ line.el.tag = "path" THEN 4
    ELSE IF line.kind = "symbol_close" THEN 2
    ELSE 0

\* line.strip(): the leading spaces and the trailing whitespace go
StripLine(line) == [line EXCEPT !.indent = 0, !.el.tail = <<>>]

\* if stripped: the line is kept, with the indentation of its kind
Indented(stripped) ==
    IF stripped.kind # "blank"
    THEN <<[stripped EXCEPT !.indent = IndentOf(stripped)]>>
    ELSE <<>>

RECURSIVE OptimizeLines(_)
OptimizeLines(lines) ==
    IF lines = <<>> THEN <<>>
    ELSE Indented(StripLine(Head(lines))) \o OptimizeLines(Tail(lines))

\* optimize_sprite_content('\n'.join(sprite_content))
optimize_sprite_content(content) == OptimizeLines(SplitLines(content))

(***************************************************************************)
(* File names (pathlib).                                                   *)
(***************************************************************************)
\* the characters of the model's file names, in code point order
CharOrder == <<".", "B", "a", "b", "c", "g", "s", "t", "v", "x">>

CharCode(c) == CHOOSE i \in 1..Len(CharOrder) : CharOrder[i] = c

\* a < b on file names: str comparison, by code point
RECURSIVE NameLt(_, _)
NameLt(a, b) ==
    IF b = <<>> THEN FALSE
    ELSE IF a = <<>> THEN TRUE
    ELSE IF Head(a) # Head(b) THEN CharCode(Head(a)) < CharCode(Head(b))
    ELSE NameLt(Tail(a), Tail(b))

SvgSuffix == <<".", "s", "v", "g">>

\* the pattern '*.svg' of icons_dir.glob
MatchesGlob(name) ==
    Len(name) >= Len(SvgSuffix) /\ SubSeq(name, Len(name) - 3, Len(name)) = SvgSuffix

LastDot(name) ==
    IF \E i \in 1..Len(name) : name[i] = "."
    THEN CHOOSE i \in 1..Len(name) : name[i] = "." /\ \A j \in (i + 1)..Len(name) : name[j] # "."
    ELSE 0

\* svg_file.stem: the name without its last suffix
Stem(name) ==
    LET i == LastDot(name)
    IN  IF i > 1 /\ i < Len(name) THEN SubSeq(name, 1, i - 1) ELSE name

\* an insertion that orders the paths the other way round
RECURSIVE InsertSortedDescending(_, _)
InsertSortedDescending(name, sortedSeq) ==
    IF sortedSeq = <<>> THEN <<name>>
    ELSE IF NameLt(Head(sortedSeq), name) THEN <<name>> \o sortedSeq
    ELSE <<Head(sortedSeq)>> \o InsertSortedDescending(name, Tail(sortedSeq))

\* sorted(svg_files): insertion of each path into a sorted list
RECURSIVE InsertSorted(_, _)
InsertSorted(name, sortedSeq) ==
    IF sortedSeq = <<>> THEN <<name>>
    ELSE IF NameLt(name, Head(sortedSeq)) THEN <<name>> \o sortedSeq
    ELSE <<Head(sortedSeq)>> \o InsertSorted(name, Tail(sortedSeq))

\* the files in the order glob listed them
Unsorted(svg_files) == [i \in 1..Len(svg_files) |-> svg_files[i]]

RECURSIVE sorted(_)
sorted(svg_files) ==
    IF svg_files = <<>> THEN <<>>
    ELSE InsertSorted(svg_files[Len(svg_files)], sorted(SubSeq(svg_files, 1, Len(svg_files) - 1)))

\* the orders in which glob may list the files `names`
GlobOrders(names) ==
    {s \in [1..Cardinality(names) -> names] : \A i, j \in 1..Cardinality(names) : s[i] = s[j] => i = j}

(***************************************************************************)
(* The inputs: texts, elements and icon files of the input directory.      *)
(***************************************************************************)
VB24 == <<"0", " ", "0", " ", "2", "4", " ", "2", "4">>

VB48 == <<"0", " ", "0", " ", "4", "8", " ", "4", "8">>

VBZero == <<"0", " ", "0", " ", "0", " ", "2", "4">>

VBComma == <<"0", ",", "0", ",", "4", "8", ",", "4", "8">>

VBOff == <<"2", " ", "4", " ", "1", "2", " ", "4", "8">>

DBg24 == <<"M", "0", " ", "0", "h", "2", "4", "v", "2", "4", "H", "0", "z">>

DBg48Int == <<"M", "0", " ", "0", "h", "4", "8", "v", "4", "8", "H", "0", "z">>

DIcon == <<"M", "1", "0", " ", "1", "0", "h", "2", "8", "v", "2", "8", "z">>

DIcon2 == <<"M", "3", " ", "3", "h", "6", "v", "6", "z">>

TxtRed == <<"r", "e", "d">>

TxtAbc == <<"a", "b", "c">>

Txt0 == <<"0">>

Txt2 == <<"2">>

Txt48 == <<"4", "8">>

TxtTranslate10 == <<"t", "r", "a", "n", "s", "l", "a", "t", "e", "(", "1", "0", ",", "1", "0", ")">>

TailText == <<"\n", " ", " ">>

NameA == <<"a", ".", "s", "v", "g">>

NameAB == <<"a", ".", "b", ".", "s", "v", "g">>

NameB == <<"B", ".", "s", "v", "g">>

NameTxt == <<"c", ".", "t", "x", "t">>

El(tag, ns, attrs, kids, tail) ==
    [tag |-> tag, ns |-> ns, attrs |-> attrs, kids |-> kids, tail |-> tail]

\* the root element of an icon file; viewBox absent when vb = <<>>
Svg(ns, vb, kids) ==
    El("svg", ns, IF vb = <<>> THEN <<>> ELSE << <<"viewBox", vb>> >>, kids, <<>>)

XmlFile(root) == [kind |-> "xml", root |-> root]

\* a file whose text is not well-formed XML
MalformedFile == [kind |-> "malformed", root |-> Svg(FALSE, <<>>, <<>>)]

\* a file open() or read() fails on (a directory named *.svg, bytes that are
\* not UTF-8)
UnreadableFile == [kind |-> "unreadable", root |-> Svg(FALSE, <<>>, <<>>)]

PathIcon == El("path", FALSE, << <<"d", DIcon>> >>, <<>>, <<>>)

PathIconNs == El("path", TRUE, << <<"d", DIcon>> >>, <<>>, TailText)

PathIconT ==
    El("path", FALSE,
       << <<"fill", TxtRed>>, <<"d", DIcon2>>, <<"transform", TxtTranslate10>> >>, <<>>, <<>>)

PathBg24 == El("path", FALSE, << <<"d", DBg24>> >>, <<>>, <<>>)

PathNoneNs == El("path", TRUE, << <<"d", DBg24>>, <<"fill", NoneText>> >>, <<>>, TailText)

PathNone == El("path", FALSE, << <<"fill", NoneText>>, <<"d", DIcon2>> >>, <<>>, <<>>)

RectBg48 ==
    El("rect", FALSE, << <<"width", Txt48>>, <<"height", Txt48>> >>, <<>>, <<>>)

RectBad == El("rect", FALSE, << <<"x", TxtAbc>>, <<"width", Txt2>> >>, <<>>, <<>>)

Circle == El("circle", FALSE, << <<"r", Txt2>> >>, <<>>, <<>>)

CircleT ==
    El("circle", FALSE, << <<"transform", TxtTranslate10>>, <<"r", Txt48>> >>, <<>>, TailText)

PathWithChild == El("path", FALSE, << <<"d", DIcon>> >>, <<Circle>>, <<>>)

BgWithChild == El("path", FALSE, << <<"d", DBg24>> >>, <<Circle>>, <<>>)

Group(kids) == El("g", FALSE, <<>>, kids, <<>>)

\* the icon files of the model
FilePool ==
    { XmlFile(Svg(TRUE, VB24, <<PathNoneNs, PathIconNs>>)),
      XmlFile(Svg(FALSE, VB48, <<RectBg48, PathIcon>>)),
      XmlFile(Svg(FALSE, VB24, <<PathBg24>>)),
      MalformedFile,
      UnreadableFile,
      XmlFile(Svg(FALSE, <<>>, <<PathIcon, RectBad>>)),
      XmlFile(Svg(FALSE, VBZero, <<PathNone, Circle>>)),
      XmlFile(Svg(FALSE, VBOff, <<Group(<<CircleT, Group(<<PathIcon>>)>>), PathNone, Circle>>)),
      XmlFile(Svg(FALSE, VBComma, <<Circle, PathIconT>>)),
      XmlFile(Svg(FALSE, VB24, <<>>)),
      XmlFile(Svg(FALSE, VB24, <<BgWithChild, PathWithChild>>)) }

\* the names a directory entry may have
NamePool == {NameA, NameAB, NameB, NameTxt}

\* the directories of the model: at most MaxFiles entries; an entry that the
\* glob pattern does not match is not an icon and is never read
Directories ==
    UNION { {dr \in [names -> FilePool] :
                \A n \in names : ~MatchesGlob(n) => dr[n] = UnreadableFile} :
            names \in {ns \in SUBSET NamePool : Cardinality(ns) <= MaxFiles} }

(***************************************************************************)
(* A wider set of inputs, for one icon file with one drawable element.     *)
(***************************************************************************)
VB48Float == <<"0", ".", "0", " ", "0", ".", "0", " ", "4", "8", ".", "0", " ", "4", "8", ".", "0">>

VBShift == <<"0", " ", "5", " ", "2", "4", " ", "2", "4">>

VBNeg == <<"-", "1", "2", " ", "-", "1", "2", " ", "2", "4", " ", "2", "4">>

VBZeroH == <<"0", " ", "0", " ", "2", "4", " ", "0">>

VBThree == <<"0", " ", "0", " ", "2", "4">>

VB16 == <<"4", " ", "4", " ", "1", "6", " ", "1", "6">>

VBNegZero == <<"-", "0", " ", "0", " ", "2", "4", " ", "2", "4">>

VBWide == <<"0", " ", "0", " ", "4", "8", " ", "2", "4">>

VB24Float == <<"0", " ", "0", " ", "2", "4", ".", "0", " ", "2", "4", ".", "0", "0">>

VBWords == <<"0", " ", "0", " ", "2", "4", "p", "x", " ", "2", "4", "p", "x">>

DBg24V == <<"M", "0", " ", "0", "h", "2", "4", "v", "2", "4", "H", "0", "V", "0", "z">>

DBg24Spaced == <<" ", "M", "0", " ", "0", "h", "2", "4", "v", "2", "4", "H", "0", "z", "\n">>

DBg48IntV == <<"M", "0", " ", "0", "h", "4", "8", "v", "4", "8", "H", "0", "V", "0", "z">>

DBg48Float == <<"M", "0", ".", "0", " ", "0", ".", "0", "h", "4", "8", ".", "0", "v", "4", "8", ".", "0", "H", "0", ".", "0", "z">>

DBg48Mixed == <<"M", "0", ".", "0", " ", "0", ".", "0", "h", "4", "8", "v", "4", "8", "H", "0", ".", "0", "z">>

DBg48Comma == <<"M", "0", ".", "0", ",", "0", ".", "0", "h", "4", "8", ".", "0", "v", "4", "8", ".", "0", "H", "0", ".", "0", "V", "0", ".", "0", "z">>

DBgOffInt == <<"M", "2", " ", "4", "h", "1", "2", "v", "4", "8", "H", "2", "z">>

DBgOffIntV == <<"M", "2", " ", "4", "h", "1", "2", "v", "4", "8", "H", "2", "V", "4", "z">>

DBgOffMixed == <<"M", "2", ".", "0", " ", "4", ".", "0", "h", "1", "2", "v", "4", "8", "H", "2", ".", "0", "z">>

DBgShiftInt == <<"M", "0", " ", "5", "h", "2", "4", "v", "2", "4", "H", "0", "z">>

TxtScale2 == <<"s", "c", "a", "l", "e", "(", "2", ",", "2", ")">>

Txt4 == <<"4">>

Txt12 == <<"1", "2">>

Txt24 == <<"2", "4">>

Txt4px == <<"4", "p", "x">>

Txt48Float == <<"4", "8", ".", "0">>

\* viewBox attributes of the root; <<>> is an absent attribute
WideViewBoxes ==
    { <<>>, VB24, VB48, VB48Float, VBOff, VBShift, VBNeg, VBZero, VBZeroH, VBComma,
      VBThree, VB16, VBNegZero, VBWide, VB24Float, VBWords }

WidePathData ==
    { DBg24, DBg24V, DBg24Spaced, DBg48Int, DBg48IntV, DBg48Float, DBg48Mixed, DBg48Comma,
      DBgOffInt, DBgOffIntV, DBgOffMixed, DBgShiftInt, DIcon }

\* fill attributes; <<>> is an absent attribute
WideFills == { <<>>, NoneText, TxtRed }

\* transform attributes: absent (<<"-">>), empty, or a transform list
NoTransform == <<"-">>

WideTransforms == { NoTransform, <<>>, TxtTranslate10, TxtScale2 }

FillAttr(fill) == IF fill = <<>> THEN <<>> ELSE << <<"fill", fill>> >>

TransformAttr(t) == IF t = NoTransform THEN <<>> ELSE << <<"transform", t>> >>

\* the attributes x, y, width, height of the rects
WideRectAttrs ==
    { <<>>,
      << <<"width", Txt48>>, <<"height", Txt48>> >>,
      << <<"x", Txt0>>, <<"y", Txt0>>, <<"width", Txt24>>, <<"height", Txt24>> >>,
      << <<"x", Txt2>>, <<"y", Txt4>>, <<"width", Txt12>>, <<"height", Txt48>> >>,
      << <<"width", Txt48>>, <<"height", Txt24>> >>,
      << <<"x", Txt2>>, <<"width", Txt48Float>>, <<"height", Txt48>> >>,
      << <<"x", TxtAbc>>, <<"width", Txt24>>, <<"height", Txt24>> >>,
      << <<"width", Txt24>>, <<"height", Txt4px>> >> }

WidePaths ==
    { El("path", ns, FillAttr(f) \o << <<"d", d>> >> \o TransformAttr(t), <<>>, <<>>) :
        ns \in {FALSE}, f \in WideFills, d \in WidePathData, t \in WideTransforms }

WideRects ==
    { El("rect", FALSE, TransformAttr(t) \o r \o FillAttr(f), <<>>, <<>>) :
        r \in WideRectAttrs, f \in {<<>>, NoneText}, t \in {NoTransform, TxtTranslate10} }

WideShapes ==
    { El(tag, ns, << <<"r", Txt2>> >> \o FillAttr(f) \o TransformAttr(t), <<>>, IF ns THEN TailText ELSE <<>>) :
        tag \in {"circle", "polygon"}, ns \in BOOLEAN, f \in WideFills, t \in WideTransforms }

WideElements == WidePaths \cup WideRects \cup WideShapes

\* the directories of one icon file a.svg with one element, and the
\* directory that holds no icon
WideDirectories ==
    { [n \in {NameA} |-> XmlFile(Svg(FALSE, vb, <<e>>))] : vb \in WideViewBoxes, e \in WideElements }
    \cup { [n \in {NameTxt} |-> UnreadableFile] }

(***************************************************************************)
(* The state of a run of generate_sprite, and of the file system.          *)
(***************************************************************************)
VARIABLES
    dirExists,        \* icons_dir.exists()
    dir,              \* the entries of icons_dir: file name -> content
    pc,               \* where the run is: "start", "loop", "done", "aborted", "raised"
    svg_files,        \* sorted(svg_files): the files the loop goes through
    idx,              \* the position of the loop in svg_files
    sprite_content,   \* the list of text entries being built
    processed_count,  \* the icons count that is reported
    output_file,      \* the output file: [exists, lines]
    mkdirs,           \* the calls of mkdir on the output directory, this run
    writes,           \* the writes of the output file, this run
    attempts,         \* the attempts to write the output file, this run
    run,              \* the number of the run
    written           \* the texts written by the runs so far, in order

vars ==
    <<dirExists, dir, pc, svg_files, idx, sprite_content, processed_count,
      output_file, mkdirs, writes, attempts, run, written>>

NoOutput == [exists |-> FALSE, lines |-> <<>>]

InitRun ==
    /\ pc = "start"
    /\ svg_files = <<>>
    /\ idx = 1
    /\ sprite_content = <<>>
    /\ processed_count = 0
    /\ output_file = NoOutput
    /\ mkdirs = 0
    /\ writes = 0
    /\ attempts = 0
    /\ run = 1
    /\ written = <<>>

Init ==
    /\ dirExists \in BOOLEAN
    /\ dir \in Directories
    /\ ~dirExists => dir = << >>
    /\ InitRun

\* the files icons_dir.glob('*.svg') yields
Globbed == {n \in DOMAIN dir : MatchesGlob(n)}

\* if not icons_dir.exists(): return
DirMissing ==
    /\ pc = "start"
    /\ ~dirExists
    /\ pc' = "aborted"
    /\ UNCHANGED <<dirExists, dir, svg_files, idx, sprite_content, processed_count,
                   output_file, mkdirs, writes, attempts, run, written>>

\* the check for no files without its return: the run goes on to the loop
NoSvgFilesGoesOn ==
    /\ pc = "start"
    /\ dirExists
    /\ Globbed = {}
    /\ svg_files' = <<>>
    /\ mkdirs' = mkdirs + 1
    /\ sprite_content' = <<SvgOpenLine>>
    /\ processed_count' = 0
    /\ idx' = 1
    /\ pc' = "loop"
    /\ UNCHANGED <<dirExists, dir, output_file, writes, attempts, run, written>>

\* if not svg_files: return
NoSvgFiles ==
    /\ pc = "start"
    /\ dirExists
    /\ Globbed = {}
    /\ pc' = "aborted"
    /\ UNCHANGED <<dirExists, dir, svg_files, idx, sprite_content, processed_count,
                   output_file, mkdirs, writes, attempts, run, written>>

\* output_path.parent.mkdir raises: the run ends on the exception, outside
\* every try
MkdirFails ==
    /\ pc = "start"
    /\ dirExists
    /\ Globbed # {}
    /\ pc' = "raised"
    /\ UNCHANGED <<dirExists, dir, svg_files, idx, sprite_content, processed_count,
                   output_file, mkdirs, writes, attempts, run, written>>

\* the way from the checks to the loop: glob lists the files in some order,
\* the output directory is made, the sprite is started, the files are sorted
Begin ==
    /\ pc = "start"
    /\ dirExists
    /\ Globbed # {}
    /\ \E listed \in GlobOrders(Globbed) : svg_files' = sorted(listed)
    /\ mkdirs' = mkdirs + 1
    /\ sprite_content' = <<SvgOpenLine>>
    /\ processed_count' = 0
    /\ idx' = 1
    /\ pc' = "loop"
    /\ UNCHANGED <<dirExists, dir, output_file, writes, attempts, run, written>>

\* the elements the loop body gets from a file: those extracted, or none
\* when open() or read() raises
ElementsOfFile(content) ==
    IF content.kind = "unreadable" THEN <<>> ELSE extract_icon_elements(content)

\* a loop body without the test of elements
AddIconAlways(icon_name, elements) ==
    /\ sprite_content' = sprite_content \o SymbolBlock(icon_name, elements)
    /\ processed_count' = processed_count + 1

\* if elements: the symbol block is added and counted
AddIcon(icon_name, elements) ==
    IF elements # <<>>
    THEN /\ sprite_content' = sprite_content \o SymbolBlock(icon_name, elements)
         /\ processed_count' = processed_count + 1
    ELSE UNCHANGED <<sprite_content, processed_count>>

\* one pass of the loop body, for svg_files[idx]
ProcessFile ==
    /\ pc = "loop"
    /\ idx <= Len(svg_files)
    /\ AddIcon(Stem(svg_files[idx]), ElementsOfFile(dir[svg_files[idx]]))
    /\ idx' = idx + 1
    /\ UNCHANGED <<dirExists, dir, pc, svg_files, output_file, mkdirs, writes,
                   attempts, run, written>>

\* the text that is written: the sprite closed, then optimized
optimized_content == optimize_sprite_content(Append(sprite_content, SvgCloseLine))

\* after the loop: the sprite is closed and optimized, and the write succeeds
WriteOutput ==
    /\ pc = "loop"
    /\ idx > Len(svg_files)
    /\ sprite_content' = Append(sprite_content, SvgCloseLine)
    /\ output_file' = [exists |-> TRUE, lines |-> optimized_content]
    /\ writes' = writes + 1
    /\ attempts' = attempts + 1
    /\ written' = Append(written, optimized_content)
    /\ pc' = "done"
    /\ UNCHANGED <<dirExists, dir, svg_files, idx, processed_count, mkdirs, run>>

\* after the loop: open() or write() raises, the error is reported
WriteFails ==
    /\ pc = "loop"
    /\ idx > Len(svg_files)
    /\ sprite_content' = Append(sprite_content, SvgCloseLine)
    /\ attempts' = attempts + 1
    /\ pc' = "done"
    /\ UNCHANGED <<dirExists, dir, svg_files, idx, processed_count, output_file,
                   mkdirs, writes, run, written>>

\* the tool is run again on the unchanged directory
RunAgain ==
    /\ pc \in {"done", "aborted", "raised"}
    /\ run < MaxRuns
    /\ run' = run + 1
    /\ pc' = "start"
    /\ svg_files' = <<>>
    /\ idx' = 1
    /\ sprite_content' = <<>>
    /\ processed_count' = 0
    /\ mkdirs' = 0
    /\ writes' = 0
    /\ attempts' = 0
    /\ UNCHANGED <<dirExists, dir, output_file, written>>

Next ==
    \/ DirMissing
    \/ NoSvgFiles
    \/ MkdirFails
    \/ Begin
    \/ ProcessFile
    \/ WriteOutput
    \/ WriteFails
    \/ RunAgain

Spec == Init /\ [][Next]_vars

\* the same program on the wider inputs
InitWide ==
    /\ dirExists \in BOOLEAN
    /\ dir \in WideDirectories \cup {<< >>}
    /\ dirExists <=> dir # << >>
    /\ InitRun

SpecWide == InitWide /\ [][Next]_vars

(***************************************************************************)
(* What the claims speak of: the symbols of the written document, and the  *)
(* drawable elements of an icon file.                                      *)
(***************************************************************************)
\* the run has ended and has written the output file
Written == pc = "done" /\ writes = 1 /\ output_file.exists

SymbolStep(acc, line) ==
    IF line.kind = "symbol_open"
    THEN Append(acc, [id |-> line.name, viewBox |-> line.viewBox, elems |-> <<>>])
    ELSE IF line.kind = "element" /\ acc # <<>>
    THEN [acc EXCEPT ![Len(acc)].elems = Append(@, line.el)]
    ELSE acc

RECURSIVE ParseSymbols(_, _)
ParseSymbols(lines, acc) ==
    IF lines = <<>> THEN acc ELSE ParseSymbols(Tail(lines), SymbolStep(acc, Head(lines)))

\* the symbols of a document, in the order of the text: [id, viewBox, elems]
Symbols(lines) == ParseSymbols(lines, <<>>)

\* the symbols of the output file that carry the id of the file `name`
SymbolsFor(name) == SelectSeq(Symbols(output_file.lines), LAMBDA s : s.id = Stem(name))

ShapeTags == {"path", "rect", "circle", "ellipse", "line", "polyline", "polygon"}

\* the drawable elements below `kids` that lie in no other drawable element,
\* in document order
RECURSIVE ReachedDrawables(_)
ReachedDrawables(kids) ==
    IF kids = <<>> THEN <<>>
    ELSE (IF Head(kids).tag \in ShapeTags THEN <<Head(kids)>>
          ELSE ReachedDrawables(Head(kids).kids))
         \o ReachedDrawables(Tail(kids))

\* every drawable element below `kids`, in document order
RECURSIVE AllDrawables(_)
AllDrawables(kids) ==
    IF kids = <<>> THEN <<>>
    ELSE (IF Head(kids).tag \in ShapeTags THEN <<Head(kids)>> ELSE <<>>)
         \o AllDrawables(Head(kids).kids)
         \o AllDrawables(Tail(kids))

\* the element is classified as background under the viewBox of its file
IsBackgroundIn(file, e) == is_background_element(e, ViewBoxOf(file.root)).bg

\* the file is well-formed and its viewBox is (0, 0, 24, 24): given so,
\* absent, or malformed and so defaulted
DefaultFrame(file) ==
    /\ file.kind = "xml"
    /\ \A i \in 1..4 : NumEq(ViewBoxOf(file.root)[i], <<PyInt(0), PyInt(0), PyInt(24), PyInt(24)>>[i])

\* an attribute x, y, width or height of the rect is not a number
NonNumericRect(e) ==
    /\ e.tag = "rect"
    /\ \E name \in {"x", "y", "width", "height"} :
          HasAttr(e, name) /\ ~ParseFloat(GetAttr(e, name, <<>>)).ok

\* the width or the height of the viewBox is zero
ZeroFrame(file) == ViewBoxOf(file.root)[3].num = 0 \/ ViewBoxOf(file.root)[4].num = 0

\* an unexpected error on the element: a non-numeric attribute of a rect that
\* is not set aside for its fill alone, or a zero-width or zero-height
\* viewBox reached in the normalization of an element that is retained
ElementRaises(file, e) ==
    \/ NonNumericRect(e) /\ GetAttr(e, "fill", <<>>) # <<"n", "o", "n", "e">>
    \/ ZeroFrame(file) /\ ~IsBackgroundIn(file, e)

\* the file fails during processing: it cannot be read, it is not
\* well-formed, or an element raises
Fails(file) ==
    \/ file.kind # "xml"
    \/ LET drawables == ReachedDrawables(file.root.kids)
       IN  \E i \in 1..Len(drawables) : ElementRaises(file, drawables[i])

NonBackgroundAmong(file, drawables) == SelectSeq(drawables, LAMBDA e : ~IsBackgroundIn(file, e))

\* the non-background drawable elements of the file, in document order
NonBackground(file) == NonBackgroundAmong(file, ReachedDrawables(file.root.kids))

NonBackgroundAll(file) == NonBackgroundAmong(file, AllDrawables(file.root.kids))

\* the attributes other than those named, in order
OtherAttrs(attrs, names) == SelectSeq(attrs, LAMBDA a : a[1] \notin names)

\* the emitted element `out` is the source element `src`, normalized
SameElement(src, out) ==
    /\ out.tag = src.tag
    /\ OtherAttrs(out.attrs, {"fill", "transform"}) = OtherAttrs(src.attrs, {"fill", "transform"})
    /\ Len(out.kids) = Len(src.kids)

\* the emitted elements are the source elements, one for one and in order
SameElements(srcs, outs) ==
    /\ Len(outs) = Len(srcs)
    /\ \A i \in 1..Len(srcs) : SameElement(srcs[i], outs[i])

\* the output holds exactly one symbol of the file, made of `srcs`
OneSymbolOf(name, srcs) ==
    LET symbols == SymbolsFor(name)
    IN  /\ Len(symbols) = 1
        /\ SameElements(srcs, symbols[1].elems)

(***************************************************************************)
(* C1                                                                      *)
(***************************************************************************)
\* C1, as stated: every icon file with at least one drawable element that is
\* not classified as background has exactly one symbol in the output, holding
\* exactly its non-background drawable elements, in document order.
C1_Original ==
    Written =>
        \A n \in Globbed :
            dir[n].kind = "xml" /\ NonBackgroundAll(dir[n]) # <<>>
                => OneSymbolOf(n, NonBackgroundAll(dir[n]))

\* C1, amended: every icon file that is processed without error and has at
\* least one non-background drawable element outside any other drawable
\* element has exactly one symbol in the written output, holding exactly
\* those elements, in document order, and so no background element.
C1_Amended ==
    Written =>
        \A n \in Globbed :
            ~Fails(dir[n]) /\ NonBackground(dir[n]) # <<>>
                => OneSymbolOf(n, NonBackground(dir[n]))

\* C1 witness: a written output for a file, processed without error, that
\* holds background elements and at least two others, one of them in a group.
C1_Witness ==
    /\ output_file.exists
    /\ \E n \in Globbed :
          /\ ~Fails(dir[n])
          /\ Len(NonBackground(dir[n])) >= 2
          /\ Len(ReachedDrawables(dir[n].root.kids)) > Len(NonBackground(dir[n]))
          /\ \E i \in 1..Len(dir[n].root.kids) : dir[n].root.kids[i].tag = "g"
          /\ Len(SymbolsFor(n)) = 1

(***************************************************************************)
(* C3                                                                      *)
(***************************************************************************)
\* the symbol blocks a run adds for the files `names`, taken in order
RECURSIVE BlocksOf(_, _)
BlocksOf(d, names) ==
    IF names = <<>> THEN <<>>
    ELSE LET elements == ElementsOfFile(d[Head(names)])
         IN  (IF elements # <<>> THEN SymbolBlock(Stem(Head(names)), elements) ELSE <<>>)
             \o BlocksOf(d, Tail(names))

\* the names of `names` in ascending order
RECURSIVE Ascending(_)
Ascending(names) ==
    IF names = {} THEN <<>>
    ELSE LET least == CHOOSE n \in names : \A m \in names \ {n} : NameLt(n, m)
         IN  <<least>> \o Ascending(names \ {least})

\* the document a run writes for the directory d
DocumentOf(d) ==
    optimize_sprite_content(
        <<SvgOpenLine>>
        \o BlocksOf(d, Ascending({n \in DOMAIN d : MatchesGlob(n)}))
        \o <<SvgCloseLine>>)

\* the directory without its failing files
WithoutFailing == [n \in {m \in DOMAIN dir : ~Fails(dir[m])} |-> dir[n]]

\* C3: a file that fails during processing contributes no symbol, not even
\* for the elements collected before the error, and the written document is
\* the one the directory without the failing files yields.
C3_FailedFileSkipped ==
    Written =>
        /\ \A n \in Globbed : Fails(dir[n]) => SymbolsFor(n) = <<>>
        /\ Symbols(output_file.lines) = Symbols(DocumentOf(WithoutFailing))

\* C3 witness: a written output for a directory with a file that fails after
\* an element was collected, and another file that has its symbol.
C3_Witness ==
    /\ output_file.exists
    /\ \E n, m \in Globbed :
          /\ dir[n].kind = "xml"
          /\ Fails(dir[n])
          /\ ~ElementRaises(dir[n], ReachedDrawables(dir[n].root.kids)[1])
          /\ ~IsBackgroundIn(dir[n], ReachedDrawables(dir[n].root.kids)[1])
          /\ NameLt(n, m)
          /\ Len(SymbolsFor(m)) = 1

(***************************************************************************)
(* C4                                                                      *)
(***************************************************************************)
\* the elements of the file that are retained: none when the file fails
Retained(file) == IF Fails(file) THEN <<>> ELSE NonBackground(file)

\* every reached drawable element of the file is classified as background
AllBackground(file) ==
    /\ file.kind = "xml"
    /\ LET drawables == ReachedDrawables(file.root.kids)
           viewbox   == ViewBoxOf(file.root)
       IN  /\ drawables # <<>>
           /\ \A i \in 1..Len(drawables) :
                 LET class == is_background_element(drawables[i], viewbox)
                 IN  class.ok /\ class.bg

\* C4: a file whose drawable elements are all background yields no symbol;
\* every symbol of the output holds at least one element; the number of
\* symbols is the number of files with a retained element, and it is the
\* icon count that is reported.
C4_NoEmptySymbol ==
    Written =>
        LET symbols == Symbols(output_file.lines)
        IN  /\ \A n \in Globbed :
                  AllBackground(dir[n]) => \A i \in 1..Len(symbols) : symbols[i].id # Stem(n)
            /\ \A i \in 1..Len(symbols) : symbols[i].elems # <<>>
            /\ Len(symbols) = Cardinality({n \in Globbed : Retained(dir[n]) # <<>>})
            /\ processed_count = Len(symbols)

\* C4 witness: a written output, with a symbol, for a directory with a file
\* whose only drawable element matches a background pattern.
C4_Witness ==
    /\ pc = "done"
    /\ output_file.exists
    /\ processed_count = 1
    /\ \E n \in Globbed :
          /\ AllBackground(dir[n])
          /\ Len(ReachedDrawables(dir[n].root.kids)) = 1
          /\ ~HasAttr(ReachedDrawables(dir[n].root.kids)[1], "fill")

(***************************************************************************)
(* C5                                                                      *)
(***************************************************************************)
\* the file of the directory a symbol id names
FileOfId(id) == CHOOSE n \in Globbed : Stem(n) = id

NoBackground(file) ==
    LET drawables == ReachedDrawables(file.root.kids)
    IN  \A i \in 1..Len(drawables) : ~IsBackgroundIn(file, drawables[i])

\* out is src with fill set to currentColor and nothing else changed
OnlyFillChanged(src, out) ==
    /\ out.tag = src.tag
    /\ OtherAttrs(out.attrs, {"fill"}) = OtherAttrs(src.attrs, {"fill"})
    /\ HasAttr(out, "fill")
    /\ GetAttr(out, "fill", <<>>) = <<"c", "u", "r", "r", "e", "n", "t", "C", "o", "l", "o", "r">>
    /\ HasAttr(src, "fill") =>
          \A i \in 1..Len(src.attrs) : src.attrs[i][1] = out.attrs[i][1]
    /\ Len(out.kids) = Len(src.kids)

\* every drawable element of the file is in its one symbol, only fill changed
AllOnlyFillChanged(name, srcs) ==
    srcs # <<>> =>
        LET symbols == SymbolsFor(name)
        IN  /\ Len(symbols) = 1
            /\ Len(symbols[1].elems) = Len(srcs)
            /\ \A i \in 1..Len(srcs) : OnlyFillChanged(srcs[i], symbols[1].elems[i])

\* C6, as stated: for a file with viewBox (0, 0, 24, 24) and no background
\* element, every drawable element is in its symbol with fill set to
\* currentColor, no transform added or altered, every other attribute kept.
C6_Original ==
    Written =>
        \A n \in Globbed :
            DefaultFrame(dir[n]) /\ NoBackground(dir[n])
                => AllOnlyFillChanged(n, ReachedDrawables(dir[n].root.kids))

\* C6, amended: the same, for a file that is processed without error (and
\* for its drawable elements outside any other drawable element).
C6_Amended ==
    Written =>
        \A n \in Globbed :
            DefaultFrame(dir[n]) /\ NoBackground(dir[n]) /\ ~Fails(dir[n])
                => AllOnlyFillChanged(n, ReachedDrawables(dir[n].root.kids))

\* C6 witness: a written output with the symbol of a file whose malformed
\* viewBox was defaulted, with an element that carries a transform and a fill.
C6_Witness ==
    /\ output_file.exists
    /\ \E n \in Globbed :
          /\ DefaultFrame(dir[n])
          /\ NoBackground(dir[n])
          /\ ~Fails(dir[n])
          /\ HasAttr(dir[n].root, "viewBox")
          /\ Len(Split(GetAttr(dir[n].root, "viewBox", <<>>))) # 4
          /\ \E i \in 1..Len(ReachedDrawables(dir[n].root.kids)) :
                /\ HasAttr(ReachedDrawables(dir[n].root.kids)[i], "transform")
                /\ HasAttr(ReachedDrawables(dir[n].root.kids)[i], "fill")
          /\ Len(SymbolsFor(n)) = 1

(***************************************************************************)
(* C7                                                                      *)
(***************************************************************************)
\* C7, as stated: a missing input directory, or one without *.svg files, ends
\* the run with no output file written and no output directory made; every
\* other run writes the output file exactly once, after all files have been
\* processed.
C7_Original ==
    /\ (~dirExists \/ Globbed = {}) =>
          /\ writes = 0 /\ attempts = 0 /\ mkdirs = 0 /\ ~output_file.exists
          /\ pc \in {"start", "aborted"}
    /\ (dirExists /\ Globbed # {}) =>
          /\ pc = "done" => writes = 1 /\ idx = Len(svg_files) + 1 /\ mkdirs = 1
          /\ pc # "done" => writes = 0

\* C7, amended: a missing input directory, or one without *.svg files, ends
\* the run with no output file written and no output directory made; every
\* other run in which the output directory can be made attempts the write of
\* the output file exactly once, after all files have been processed, and
\* the file is written then unless that write fails, which is reported and
\* not retried.
C7_Amended ==
    /\ (~dirExists \/ Globbed = {}) =>
          /\ writes = 0 /\ attempts = 0 /\ mkdirs = 0 /\ ~output_file.exists
          /\ pc \in {"start", "aborted"}
    /\ (dirExists /\ Globbed # {}) =>
          /\ pc = "done" => attempts = 1 /\ writes <= 1 /\ idx = Len(svg_files) + 1 /\ mkdirs = 1
          /\ pc # "done" => attempts = 0 /\ writes = 0

\* C7 witness: a finished run over two files that were both skipped, with the
\* output written once.
C7_Witness ==
    /\ pc = "done"
    /\ writes = 1
    /\ Len(svg_files) = 2
    /\ processed_count = 0
    /\ output_file.exists
    /\ Symbols(output_file.lines) = <<>>

(***************************************************************************)
(* C8                                                                      *)
(***************************************************************************)
\* C8: the runs on an unchanged directory write the same text, whatever the
\* order in which the directory lists its files, and no run changes the
\* directory.
C8_Deterministic ==
    /\ [](\A i, j \in 1..Len(written) : written[i] = written[j])
    /\ [][dir' = dir /\ dirExists' = dirExists]_vars

\* C8 witness: two runs have written, a text with two symbols.
C8_Witness ==
    /\ Len(written) = 2
    /\ Len(Symbols(written[2])) = 2

(***************************************************************************)
(* Transform lists, read as SVG reads them: a list of translate(a,b) and   *)
(* scale(a,b) items, the rightmost applied to a point first.  Numbers are  *)
(* <<n, d>>, the fraction n/d with d > 0.                                  *)
(***************************************************************************)
Frac(a) == <<IF a.neg THEN -a.num ELSE a.num, a.den>>

FracEq(p, q) == p[1] * q[2] = q[1] * p[2]

FracAdd(p, q) == <<p[1] * q[2] + q[1] * p[2], p[2] * q[2]>>

FracMul(p, q) == <<p[1] * q[1], p[2] * q[2]>>

\* p / q for q # 0
FracDiv(p, q) == IF q[1] > 0 THEN <<p[1] * q[2], p[2] * q[1]>> ELSE <<-(p[1] * q[2]), -(p[2] * q[1])>>

TranslateName == <<"t", "r", "a", "n", "s", "l", "a", "t", "e">>

ScaleName == <<"s", "c", "a", "l", "e">>

CharAt(s, c) == IF \E i \in 1..Len(s) : s[i] = c THEN CHOOSE i \in 1..Len(s) : s[i] = c ELSE 0

\* one item name(a,b) of a transform list: [ok, name, a, b]
TransformItem(item) ==
    LET open  == CharAt(item, "(")
        comma == CharAt(item, ",")
    IN  IF /\ open > 1
           /\ comma > open
           /\ item[Len(item)] = ")"
           /\ ParseFloat(SubSeq(item, open + 1, comma - 1)).ok
           /\ ParseFloat(SubSeq(item, comma + 1, Len(item) - 1)).ok
        THEN [ok |-> TRUE, name |-> SubSeq(item, 1, open - 1),
              a |-> Frac(ParseFloat(SubSeq(item, open + 1, comma - 1)).val),
              b |-> Frac(ParseFloat(SubSeq(item, comma + 1, Len(item) - 1)).val)]
        ELSE [ok |-> FALSE, name |-> <<>>, a |-> <<0, 1>>, b |-> <<0, 1>>]

\* the items of a transform list
TransformItems(text) == [i \in 1..Len(Split(text)) |-> TransformItem(Split(text)[i])]

\* one item applied to the point p
ApplyItem(item, p) ==
    IF item.name = TranslateName THEN <<FracAdd(p[1], item.a), FracAdd(p[2], item.b)>>
    ELSE <<FracMul(p[1], item.a), FracMul(p[2], item.b)>>

\* a transform list applied to the point p: the rightmost item first
RECURSIVE ApplyItems(_, _)
ApplyItems(items, p) ==
    IF items = <<>> THEN p ELSE ApplyItem(Head(items), ApplyItems(Tail(items), p))

\* the transform list `text` sends the point p to the point q
SendsTo(text, p, q) ==
    /\ \A i \in 1..Len(TransformItems(text)) :
          /\ TransformItems(text)[i].ok
          /\ TransformItems(text)[i].name \in {TranslateName, ScaleName}
    /\ FracEq(ApplyItems(TransformItems(text), p)[1], q[1])
    /\ FracEq(ApplyItems(TransformItems(text), p)[2], q[2])

\* the viewBox of the file, as fractions
FrameOf(file) == [i \in 1..4 |-> Frac(ViewBoxOf(file.root)[i])]

\* the file is well-formed, its viewBox is not (0, 0, 24, 24), and its width
\* and height are not zero
OtherFrame(file) ==
    /\ file.kind = "xml"
    /\ ~DefaultFrame(file)
    /\ FrameOf(file)[3][1] # 0
    /\ FrameOf(file)[4][1] # 0

\* the emitted transform sends the corners of the viewBox to (0,0), (24,24)
CornersToCanon(frame, out) ==
    /\ SendsTo(GetAttr(out, "transform", <<>>),
               <<frame[1], frame[2]>>, <<<<0, 1>>, <<0, 1>>>>)
    /\ SendsTo(GetAttr(out, "transform", <<>>),
               <<FracAdd(frame[1], frame[3]), FracAdd(frame[2], frame[4])>>,
               <<<<24, 1>>, <<24, 1>>>>)

(***************************************************************************)
(* C2                                                                      *)
(***************************************************************************)
\* C2, as stated: for a file whose viewBox (x, y, w, h) is not
\* (0, 0, 24, 24), the transform emitted on each retained element sends the
\* point (x, y) to (0, 0) and the point (x+w, y+h) to (24, 24), also on an
\* element that already carried a transform.
C2_CornersToCanon ==
    Written =>
        \A n \in Globbed :
            OtherFrame(dir[n]) =>
                \A k \in 1..Len(SymbolsFor(n)) :
                    \A i \in 1..Len(SymbolsFor(n)[k].elems) :
                        CornersToCanon(FrameOf(dir[n]), SymbolsFor(n)[k].elems[i])

(***************************************************************************)
(* C9                                                                      *)
(***************************************************************************)
\* the normalization of the frame: <<name, a, b>> for translate, for scale
ExpectedScale(frame) == <<FracDiv(<<24, 1>>, frame[3]), FracDiv(<<24, 1>>, frame[4])>>

ExpectedTranslate(frame) ==
    <<FracMul(<<-frame[1][1], frame[1][2]>>, ExpectedScale(frame)[1]),
      FracMul(<<-frame[2][1], frame[2][2]>>, ExpectedScale(frame)[2])>>

\* translate, unless both translations are zero; then scale, unless both
\* scales are 1
ExpectedItems(frame) ==
    (IF ExpectedTranslate(frame)[1][1] # 0 \/ ExpectedTranslate(frame)[2][1] # 0
     THEN << <<TranslateName, ExpectedTranslate(frame)[1], ExpectedTranslate(frame)[2]>> >>
     ELSE <<>>)
    \o
    (IF ~FracEq(ExpectedScale(frame)[1], <<1, 1>>) \/ ~FracEq(ExpectedScale(frame)[2], <<1, 1>>)
     THEN << <<ScaleName, ExpectedScale(frame)[1], ExpectedScale(frame)[2]>> >>
     ELSE <<>>)

\* the text is the list of the expected items, and nothing else
IsItems(text, expected) ==
    /\ Len(TransformItems(text)) = Len(expected)
    /\ \A i \in 1..Len(expected) :
          /\ TransformItems(text)[i].ok
          /\ TransformItems(text)[i].name = expected[i][1]
          /\ FracEq(TransformItems(text)[i].a, expected[i][2])
          /\ FracEq(TransformItems(text)[i].b, expected[i][3])

\* the emitted transform is the existing one, whitespace, the normalization
ExistingThenNormalization(existing, emitted, expected) ==
    /\ Len(emitted) > Len(existing) + 1
    /\ SubSeq(emitted, 1, Len(existing)) = existing
    /\ IsSpace(emitted[Len(existing) + 1])
    /\ ~IsSpace(emitted[Len(existing) + 2])
    /\ IsItems(SubSeq(emitted, Len(existing) + 2, Len(emitted)), expected)

\* C9: a retained element of a file with another viewBox than
\* (0, 0, 24, 24) that has a non-empty transform keeps it, first in the
\* emitted attribute, then whitespace, then the normalization transform:
\* translate, left out when both translations are zero, then scale, left out
\* when both scales are 1.
C9_ExistingTransformFirst ==
    Written =>
        \A n \in Globbed :
            OtherFrame(dir[n]) /\ ~Fails(dir[n]) /\ NonBackground(dir[n]) # <<>> =>
                /\ Len(SymbolsFor(n)) = 1
                /\ Len(SymbolsFor(n)[1].elems) = Len(NonBackground(dir[n]))
                /\ \A i \in 1..Len(NonBackground(dir[n])) :
                      GetAttr(NonBackground(dir[n])[i], "transform", <<>>) # <<>> =>
                          ExistingThenNormalization(
                              GetAttr(NonBackground(dir[n])[i], "transform", <<>>),
                              GetAttr(SymbolsFor(n)[1].elems[i], "transform", <<>>),
                              ExpectedItems(FrameOf(dir[n])))

\* C9 witness: a written output with an element that had a transform, from a
\* file whose viewBox needs a translate and a scale.
C9_Witness ==
    /\ output_file.exists
    /\ \E n \in Globbed :
          /\ OtherFrame(dir[n])
          /\ ~Fails(dir[n])
          /\ Len(ExpectedItems(FrameOf(dir[n]))) = 2
          /\ NonBackground(dir[n]) # <<>>
          /\ GetAttr(NonBackground(dir[n])[1], "transform", <<>>) # <<>>
          /\ Len(SymbolsFor(n)) = 1
          /\ HasAttr(SymbolsFor(n)[1].elems[1], "transform")

(***************************************************************************)
(* C10                                                                     *)
(***************************************************************************)
\* the text of an integer
IntText(p) == (IF p[1] < 0 THEN <<"-">> ELSE <<>>) \o NatStr(IF p[1] < 0 THEN -p[1] ELSE p[1])

\* "M{x} {y}h{w}v{h}H{x}z", and the same with "V{y}" before "z"
FullRectTexts(frame) ==
    { <<"M">> \o IntText(frame[1]) \o <<" ">> \o IntText(frame[2])
      \o <<"h">> \o IntText(frame[3]) \o <<"v">> \o IntText(frame[4])
      \o <<"H">> \o IntText(frame[1]) \o close \o <<"z">> :
        close \in {<<>>, <<"V">> \o IntText(frame[2])} }

\* the path covers the full viewBox, written with integer coordinates
IsFullRectPath(frame, e) ==
    /\ e.tag = "path"
    /\ HasAttr(e, "d")
    /\ Strip(GetAttr(e, "d", <<>>)) \in FullRectTexts(frame)

\* C10, as stated: for a viewBox (x, y, w, h) with integer values, a path
\* whose trimmed d is the rectangle covering the full viewBox, written with
\* integer coordinates, is classified as background and is not emitted, for
\* 0 0 48 48 as for 0 0 24 24.
C10_FullRectIsBackground ==
    Written =>
        \A n \in Globbed :
            /\ dir[n].kind = "xml"
            /\ HasAttr(dir[n].root, "viewBox")
            /\ Len(Split(GetAttr(dir[n].root, "viewBox", <<>>))) = 4
            /\ \A i \in 1..4 : FrameOf(dir[n])[i][2] = 1
            => \A i \in 1..Len(ReachedDrawables(dir[n].root.kids)) :
                  IsFullRectPath(FrameOf(dir[n]), ReachedDrawables(dir[n].root.kids)[i]) =>
                      /\ IsBackgroundIn(dir[n], ReachedDrawables(dir[n].root.kids)[i])
                      /\ \A k \in 1..Len(SymbolsFor(n)) :
                            \A j \in 1..Len(SymbolsFor(n)[k].elems) :
                                ~IsFullRectPath(FrameOf(dir[n]), SymbolsFor(n)[k].elems[j])

====
